---- MODULE Spec2Model ----
(***************************************************************************)
(* Model of the model-load router of tfjs-converter (src/src/index.ts):    *)
(* the two entry points loadFrozenModel (deprecated) and loadGraphModel,   *)
(* and the helper getWeightsManifestUrl.                                   *)
(*                                                                         *)
(* JavaScript values are records [t, v]: t is the runtime type tag and v   *)
(* the payload as a sequence (a string is the sequence of its characters). *)
(* The backend loaders are imported, opaque functions: a call to one is an *)
(* event in the call's event list, and the promise it returns settles with *)
(* an outcome chosen by the environment.                                   *)
(***************************************************************************)
EXTENDS Integers, Sequences, FiniteSets

VARIABLES nCalls, nLegacy, nWarn, last, repeat, synthIn, synthOut, synthPrev, synthCalls

vars == <<nCalls, nLegacy, nWarn, last, repeat, synthIn, synthOut, synthPrev, synthCalls>>

routerVars == <<nCalls, nLegacy, nWarn, last, repeat>>

synthVars == <<synthIn, synthOut, synthPrev, synthCalls>>

----------------------------------------------------------------------------
(* Bounds *)

MaxLen == 3

MaxCalls == 3

MaxSynthCalls == 2

----------------------------------------------------------------------------
(* JavaScript values *)

UNDEFINED == [t |-> "undefined", v |-> <<>>]

NULL == [t |-> "null", v |-> <<>>]

Str(s) == [t |-> "string", v |-> s]

Handler(h) == [t |-> "handler", v |-> <<h>>]

Bool(b) == [t |-> "boolean", v |-> <<b>>]

\* x == null  (loose equality: true for null and undefined only)
IsNullish(x) == x.t \in {"undefined", "null"}

\* ToBoolean(x), as used by `modelUrl && ...` and `if (options.fromTFHub)`
Truthy(x) ==
  CASE x.t \in {"undefined", "null"} -> FALSE
    [] x.t = "string" -> x.v # <<>>
    [] x.t = "boolean" -> x.v = <<"true">>
    [] OTHER -> TRUE

\* util.isString(x)
isString(x) == x.t = "string"

----------------------------------------------------------------------------
(* String primitives, on sequences of characters *)

SetMax(S) == CHOOSE m \in S : \A n \in S : n <= m

Min2(a, b) == IF a <= b THEN a ELSE b

Max2(a, b) == IF a >= b THEN a ELSE b

\* String.prototype.endsWith
endsWith(s, suffix) ==
  /\ Len(suffix) <= Len(s)
  /\ SubSeq(s, Len(s) - Len(suffix) + 1, Len(s)) = suffix

\* String.prototype.indexOf of a single character, 0-based, -1 when absent
indexOf(s, c) ==
  LET I == {i \in 1..Len(s) : s[i] = c}
  IN  IF I = {} THEN -1 ELSE (CHOOSE m \in I : \A n \in I : m <= n) - 1

\* String.prototype.lastIndexOf of a single character, 0-based, -1 when absent
lastIndexOf(s, c) ==
  LET I == {i \in 1..Len(s) : s[i] = c}
  IN  IF I = {} THEN -1 ELSE SetMax(I) - 1

\* String.prototype.slice(start, end) for start >= 0: a negative end counts
\* from the end of the string
slice(s, start, end) ==
  LET e == IF end < 0 THEN Max2(Len(s) + end, 0) ELSE Min2(end, Len(s))
  IN  IF e <= start THEN <<>> ELSE SubSeq(s, start + 1, e)

\* String.prototype.substr(start, length): a negative start counts from the
\* end; a length <= 0 gives the empty string
substr(s, start, length) ==
  LET b == IF start < 0 THEN Max2(Len(s) + start, 0) ELSE Min2(start, Len(s))
      n == Min2(Max2(length, 0), Len(s) - b)
  IN  IF n <= 0 THEN <<>> ELSE SubSeq(s, b + 1, b + n)

DotJson == <<".", "j", "s", "o", "n">>

DotPb == <<".", "p", "b">>

Slash == "/"

\* DEFAULT_MANIFEST_NAME, imported from ./executor/frozen_model
DEFAULT_MANIFEST_NAME ==
  <<"w", "e", "i", "g", "h", "t", "s", "_", "m", "a", "n", "i", "f", "e", "s", "t",
    ".", "j", "s", "o", "n">>

----------------------------------------------------------------------------
(* Observable effects of one call *)

\* a call of an imported function, with the arguments it received
Invoke(name, args) == [ev |-> name, args |-> args]

\* deprecationWarn(...), imported from tfjs-core
deprecationWarn == Invoke("deprecationWarn", <<>>)

Backends == {"loadFrozenModelPB", "loadFrozenModelJSON", "loadTfHubModuleJSON"}

\* what the promise returned by a backend settles with
Outcomes ==
  { [kind |-> "fulfilled", v |-> "model1"],
    [kind |-> "rejected", v |-> "error1"],
    [kind |-> "rejected", v |-> "error2"] }

\* throw new Error('modelUrl in loadGraphModel() cannot be null. ...')
NullModelUrlError == [kind |-> "thrown", v |-> "modelUrl in loadGraphModel() cannot be null"]

\* the literal {} used as default options
EmptyOptions ==
  [t |-> "object", fromTFHub |-> UNDEFINED, requestInit |-> UNDEFINED, onProgress |-> UNDEFINED]

----------------------------------------------------------------------------
(* getWeightsManifestUrl *)

\* mutant: cuts at the first `/` instead of the last
getWeightsManifestUrl_firstSlash(modelUrl) ==
  IF ~IsNullish(modelUrl)
  THEN LET path == substr(modelUrl.v, 0, indexOf(modelUrl.v, Slash))
       IN  Str(path \o <<Slash>> \o DEFAULT_MANIFEST_NAME)
  ELSE UNDEFINED

\* mutant: slice(0, i) instead of substr(0, i); differs when i = -1
getWeightsManifestUrl_slice(modelUrl) ==
  IF ~IsNullish(modelUrl)
  THEN LET path == slice(modelUrl.v, 0, lastIndexOf(modelUrl.v, Slash))
       IN  Str(path \o <<Slash>> \o DEFAULT_MANIFEST_NAME)
  ELSE UNDEFINED

getWeightsManifestUrl(modelUrl) ==
  IF ~IsNullish(modelUrl)
  THEN LET path == substr(modelUrl.v, 0, lastIndexOf(modelUrl.v, Slash))
       IN  Str(path \o <<Slash>> \o DEFAULT_MANIFEST_NAME)
  ELSE UNDEFINED

----------------------------------------------------------------------------
(* loadFrozenModel: result is [events, result], o is the outcome of the      *)
(* promise of the backend that gets invoked                                  *)

\* mutant: the `.json` branch does not return and falls through to the binary
\* loader
loadFrozenModel_fallthrough(modelUrl, weightsManifestUrl, requestOption, onProgress, o) ==
  LET json == IF Truthy(modelUrl) /\ endsWith(modelUrl.v, DotJson)
              THEN <<Invoke("loadFrozenModelJSON", <<modelUrl, requestOption, onProgress>>)>>
              ELSE <<>>
      manifest == IF ~IsNullish(modelUrl) /\ IsNullish(weightsManifestUrl)
                  THEN getWeightsManifestUrl(modelUrl)
                  ELSE weightsManifestUrl
  IN  [events |-> <<deprecationWarn>> \o json \o
                  <<Invoke("loadFrozenModelPB",
                           <<modelUrl, manifest, requestOption, onProgress>>)>>,
       result |-> o]

\* mutant: a supplied manifest URL selects the binary loader before the
\* `.json` suffix is looked at
loadFrozenModel_manifestFirst(modelUrl, weightsManifestUrl, requestOption, onProgress, o) ==
  IF Truthy(modelUrl) /\ endsWith(modelUrl.v, DotJson) /\ IsNullish(weightsManifestUrl)
  THEN [events |-> <<deprecationWarn,
                     Invoke("loadFrozenModelJSON", <<modelUrl, requestOption, onProgress>>)>>,
        result |-> o]
  ELSE LET manifest == IF ~IsNullish(modelUrl) /\ IsNullish(weightsManifestUrl)
                       THEN getWeightsManifestUrl(modelUrl)
                       ELSE weightsManifestUrl
       IN  [events |-> <<deprecationWarn,
                         Invoke("loadFrozenModelPB",
                                <<modelUrl, manifest, requestOption, onProgress>>)>>,
            result |-> o]

\* mutant: the manifest URL is always rebuilt from the model URL
loadFrozenModel_alwaysSynth(modelUrl, weightsManifestUrl, requestOption, onProgress, o) ==
  IF Truthy(modelUrl) /\ endsWith(modelUrl.v, DotJson)
  THEN [events |-> <<deprecationWarn,
                     Invoke("loadFrozenModelJSON", <<modelUrl, requestOption, onProgress>>)>>,
        result |-> o]
  ELSE LET manifest == IF ~IsNullish(modelUrl)
                       THEN getWeightsManifestUrl(modelUrl)
                       ELSE weightsManifestUrl
       IN  [events |-> <<deprecationWarn,
                         Invoke("loadFrozenModelPB",
                                <<modelUrl, manifest, requestOption, onProgress>>)>>,
            result |-> o]

\* mutant: the deprecation warning is emitted after the `.json` early return
loadFrozenModel_warnLate(modelUrl, weightsManifestUrl, requestOption, onProgress, o) ==
  IF Truthy(modelUrl) /\ endsWith(modelUrl.v, DotJson)
  THEN [events |-> <<Invoke("loadFrozenModelJSON", <<modelUrl, requestOption, onProgress>>)>>,
        result |-> o]
  ELSE LET manifest == IF ~IsNullish(modelUrl) /\ IsNullish(weightsManifestUrl)
                       THEN getWeightsManifestUrl(modelUrl)
                       ELSE weightsManifestUrl
       IN  [events |-> <<deprecationWarn,
                         Invoke("loadFrozenModelPB",
                                <<modelUrl, manifest, requestOption, onProgress>>)>>,
            result |-> o]

loadFrozenModel(modelUrl, weightsManifestUrl, requestOption, onProgress, o) ==
  IF Truthy(modelUrl) /\ endsWith(modelUrl.v, DotJson)
  THEN [events |-> <<deprecationWarn,
                     Invoke("loadFrozenModelJSON", <<modelUrl, requestOption, onProgress>>)>>,
        result |-> o]
  ELSE LET manifest == IF ~IsNullish(modelUrl) /\ IsNullish(weightsManifestUrl)
                       THEN getWeightsManifestUrl(modelUrl)
                       ELSE weightsManifestUrl
       IN  [events |-> <<deprecationWarn,
                         Invoke("loadFrozenModelPB",
                                <<modelUrl, manifest, requestOption, onProgress>>)>>,
            result |-> o]

----------------------------------------------------------------------------
(* loadGraphModel: options is [t, fromTFHub, requestInit, onProgress] with   *)
(* t in {"undefined", "null", "object"}                                      *)

\* the default parameter `options = {}` replaces undefined, then
\* `if (options == null) options = {}` replaces null
DefaultOptions(options) ==
  LET o1 == IF options.t = "undefined" THEN EmptyOptions ELSE options
  IN  IF o1.t \in {"undefined", "null"} THEN EmptyOptions ELSE o1

\* the three forwarding branches, after the null check
Dispatch(modelUrl, opts, o) ==
  IF Truthy(opts.fromTFHub)
  THEN [events |-> <<Invoke("loadTfHubModuleJSON",
                            <<modelUrl, opts.requestInit, opts.onProgress>>)>>,
        result |-> o]
  ELSE IF isString(modelUrl) /\ endsWith(modelUrl.v, DotPb)
  THEN LET weightsManifestUrl == getWeightsManifestUrl(modelUrl)
       IN  [events |-> <<Invoke("loadFrozenModelPB",
                                <<modelUrl, weightsManifestUrl,
                                  opts.requestInit, opts.onProgress>>)>>,
            result |-> o]
  ELSE [events |-> <<Invoke("loadFrozenModelJSON",
                            <<modelUrl, opts.requestInit, opts.onProgress>>)>>,
        result |-> o]

\* mutant: the fromTFHub branch is taken before the null check
loadGraphModel_hubBeforeNull(modelUrl, options, o) ==
  LET opts == DefaultOptions(options)
  IN  IF Truthy(opts.fromTFHub)
      THEN [events |-> <<Invoke("loadTfHubModuleJSON",
                                <<modelUrl, opts.requestInit, opts.onProgress>>)>>,
            result |-> o]
      ELSE IF IsNullish(modelUrl)
      THEN [events |-> <<>>, result |-> NullModelUrlError]
      ELSE Dispatch(modelUrl, opts, o)

\* mutant: the `.pb` suffix test is evaluated before the fromTFHub test
loadGraphModel_pbFirst(modelUrl, options, o) ==
  LET opts == DefaultOptions(options)
  IN  IF IsNullish(modelUrl)
      THEN [events |-> <<>>, result |-> NullModelUrlError]
      ELSE IF isString(modelUrl) /\ endsWith(modelUrl.v, DotPb)
      THEN [events |-> <<Invoke("loadFrozenModelPB",
                                <<modelUrl, getWeightsManifestUrl(modelUrl),
                                  opts.requestInit, opts.onProgress>>)>>,
            result |-> o]
      ELSE Dispatch(modelUrl, opts, o)

\* mutant: null options are not replaced by {}, reading options.fromTFHub
\* throws a TypeError
loadGraphModel_nullOptions(modelUrl, options, o) ==
  IF IsNullish(modelUrl)
  THEN [events |-> <<>>, result |-> NullModelUrlError]
  ELSE IF options.t = "null"
  THEN [events |-> <<>>, result |-> [kind |-> "thrown", v |-> "TypeError"]]
  ELSE Dispatch(modelUrl, DefaultOptions(options), o)

\* mutant: a rejection of the backend is caught and rethrown as a new error
loadGraphModel_wrapError(modelUrl, options, o) ==
  LET opts == DefaultOptions(options)
      r == Dispatch(modelUrl, opts, o)
  IN  IF IsNullish(modelUrl)
      THEN [events |-> <<>>, result |-> NullModelUrlError]
      ELSE IF r.result.kind = "rejected"
      THEN [events |-> r.events, result |-> [kind |-> "rejected", v |-> "load failed"]]
      ELSE r

loadGraphModel(modelUrl, options, o) ==
  IF IsNullish(modelUrl)
  THEN [events |-> <<>>, result |-> NullModelUrlError]
  ELSE Dispatch(modelUrl, DefaultOptions(options), o)

----------------------------------------------------------------------------
(* Inputs *)

\* all sequences over S of length at most n
SeqsUpTo(S, n) == UNION {[1..k -> S] : k \in 0..n}

Prefixes == SeqsUpTo({"a", Slash}, MaxLen)

Suffixes == {<<>>, DotPb, DotJson, <<"p", "b">>}

\* URL strings: a path followed by an extension, and an extension followed by
\* a path (the extension is then not a suffix)
Urls == {p \o x : p \in Prefixes, x \in Suffixes} \cup {x \o p : p \in Prefixes, x \in Suffixes}

\* the few URL strings used when several calls are made in a row
SeqUrls == {<<>>, <<Slash, "a">>, <<"a">> \o DotPb, <<"a", Slash, "a">> \o DotJson}

ManifestArgs == {UNDEFINED, NULL, Str(<<>>), Str(<<"m", Slash, "w">>)}

RequestInits == {UNDEFINED, [t |-> "object", v |-> <<"requestInit1">>]}

ProgressCallbacks == {UNDEFINED, [t |-> "function", v |-> <<"onProgress1">>]}

FromTFHubValues == {UNDEFINED, Bool("false"), Bool("true")}

NoOptions(tag) ==
  [t |-> tag, fromTFHub |-> UNDEFINED, requestInit |-> UNDEFINED, onProgress |-> UNDEFINED]

\* the options argument: omitted, null, or an object
OptionArgs(requestInits, callbacks) ==
  {NoOptions("undefined"), NoOptions("null")} \cup
  [t : {"object"}, fromTFHub : FromTFHubValues,
   requestInit : requestInits, onProgress : callbacks]

----------------------------------------------------------------------------
(* State machine: calls of the two entry points.  last is the latest call:   *)
(* its arguments, the calls it made to imported functions (events), what it  *)
(* returned or threw (result) and what the environment chose as outcome of   *)
(* the backend's promise (settled).                                          *)

NoCall == [entry |-> "none", args |-> <<>>, events |-> <<>>, result |-> [kind |-> "none", v |-> ""],
           settled |-> [kind |-> "none", v |-> ""]]

\* the backend invocations among the events of a call, in order
BackendCalls(events) == SelectSeq(events, LAMBDA e : e.ev \in Backends)

BackendNames(events) == [i \in 1..Len(BackendCalls(events)) |-> BackendCalls(events)[i].ev]

CountWarn(events) == Len(SelectSeq(events, LAMBDA e : e.ev = "deprecationWarn"))

\* whether a call repeats the arguments of the call before it, and if so the
\* backends that earlier call invoked
Repeats(entry, args) ==
  IF last.entry = entry /\ last.args = args
  THEN [same |-> TRUE, backends |-> BackendNames(last.events)]
  ELSE [same |-> FALSE, backends |-> <<>>]

LoadFrozenModelStep(modelUrl, weightsManifestUrl, requestOption, onProgress, o) ==
  LET args == <<modelUrl, weightsManifestUrl, requestOption, onProgress>>
      r == loadFrozenModel(modelUrl, weightsManifestUrl, requestOption, onProgress, o)
  IN  /\ nCalls' = nCalls + 1
      /\ nLegacy' = nLegacy + 1
      /\ nWarn' = nWarn + CountWarn(r.events)
      /\ last' = [entry |-> "loadFrozenModel", args |-> args, events |-> r.events,
                  result |-> r.result, settled |-> o]
      /\ repeat' = Repeats("loadFrozenModel", args)
      /\ UNCHANGED synthVars

LoadGraphModelStep(modelUrl, options, o) ==
  LET args == <<modelUrl, options>>
      r == loadGraphModel(modelUrl, options, o)
  IN  /\ nCalls' = nCalls + 1
      /\ nLegacy' = nLegacy
      /\ nWarn' = nWarn + CountWarn(r.events)
      /\ last' = [entry |-> "loadGraphModel", args |-> args, events |-> r.events,
                  result |-> r.result, settled |-> o]
      /\ repeat' = Repeats("loadGraphModel", args)
      /\ UNCHANGED synthVars

Init ==
  /\ nCalls = 0
  /\ nLegacy = 0
  /\ nWarn = 0
  /\ last = NoCall
  /\ repeat = [same |-> FALSE, backends |-> <<>>]
  /\ synthIn = <<>>
  /\ synthOut = UNDEFINED
  /\ synthPrev = UNDEFINED
  /\ synthCalls = 0

(* One call, with arguments from the full input sets: both entry points are  *)
(* functions of their arguments and of the backend's outcome.                *)

CallLoadFrozenModel ==
  /\ nCalls = 0
  /\ \E modelUrl \in {UNDEFINED, NULL} \cup {Str(u) : u \in Urls},
        weightsManifestUrl \in ManifestArgs,
        requestOption \in RequestInits, onProgress \in ProgressCallbacks, o \in Outcomes :
          LoadFrozenModelStep(modelUrl, weightsManifestUrl, requestOption, onProgress, o)

CallLoadGraphModel ==
  /\ nCalls = 0
  /\ \E modelUrl \in {UNDEFINED, NULL, Handler("handler1")} \cup {Str(u) : u \in Urls},
        options \in OptionArgs(RequestInits, ProgressCallbacks), o \in Outcomes :
          LoadGraphModelStep(modelUrl, options, o)

Next == CallLoadFrozenModel \/ CallLoadGraphModel

Spec == Init /\ [][Next]_vars

(* Up to MaxCalls calls in a row, with arguments from the small input sets.  *)

SeqLoadFrozenModel ==
  /\ nCalls < MaxCalls
  /\ \E modelUrl \in {UNDEFINED, NULL} \cup {Str(u) : u \in SeqUrls},
        weightsManifestUrl \in ManifestArgs, o \in Outcomes :
          LoadFrozenModelStep(modelUrl, weightsManifestUrl, UNDEFINED, UNDEFINED, o)

SeqLoadGraphModel ==
  /\ nCalls < MaxCalls
  /\ \E modelUrl \in {UNDEFINED, NULL, Handler("handler1")} \cup {Str(u) : u \in SeqUrls},
        options \in OptionArgs({UNDEFINED}, {UNDEFINED}), o \in Outcomes :
          LoadGraphModelStep(modelUrl, options, o)

SeqNext == SeqLoadFrozenModel \/ SeqLoadGraphModel

SeqSpec == Init /\ [][SeqNext]_vars

----------------------------------------------------------------------------
(* getWeightsManifestUrl as a pure function: the input is drawn in the       *)
(* initial state and the function is applied to it repeatedly                *)

ApplySynth ==
  /\ synthCalls < MaxSynthCalls
  /\ synthCalls' = synthCalls + 1
  /\ synthPrev' = synthOut
  /\ synthOut' = getWeightsManifestUrl(Str(synthIn))
  /\ UNCHANGED <<synthIn, routerVars>>

SynthInit ==
  /\ nCalls = 0
  /\ nLegacy = 0
  /\ nWarn = 0
  /\ last = NoCall
  /\ repeat = [same |-> FALSE, backends |-> <<>>]
  /\ synthIn \in Urls
  /\ synthOut = UNDEFINED
  /\ synthPrev = UNDEFINED
  /\ synthCalls = 0

SynthNext == ApplySynth

SynthSpec == SynthInit /\ [][SynthNext]_vars

----------------------------------------------------------------------------
(* Vocabulary of the properties, stated independently of the string          *)
(* primitives used by the code                                               *)

\* s = p \o x for some p
HasSuffix(s, x) == \E k \in 0..Len(s) : s = SubSeq(s, 1, k) \o x

HasSlash(s) == \E i \in 1..Len(s) : s[i] = Slash

\* the part of s before its final `/`; empty when s has no `/`
DirName(s) ==
  LET K == {k \in 1..Len(s) : s[k] = Slash /\ \A j \in (k + 1)..Len(s) : s[j] # Slash}
  IN  IF K = {} THEN <<>> ELSE SubSeq(s, 1, (CHOOSE k \in K : TRUE) - 1)

\* dirname(s) + "/" + fixed manifest filename
ManifestFor(s) == Str(DirName(s) \o <<Slash>> \o DEFAULT_MANIFEST_NAME)

IsLegacyCall == last.entry = "loadFrozenModel"

IsGraphCall == last.entry = "loadGraphModel"

Locator == last.args[1]

\* the options argument of the last loadGraphModel call sets fromTFHub to true
HubFlag == last.args[2].t = "object" /\ last.args[2].fromTFHub = Bool("true")

\* requestInit and onProgress the last loadGraphModel call carries, if any
GraphRequestInit == IF last.args[2].t = "object" THEN last.args[2].requestInit ELSE UNDEFINED

GraphOnProgress == IF last.args[2].t = "object" THEN last.args[2].onProgress ELSE UNDEFINED

Invoked == BackendCalls(last.events)

OnlyInvoked(name) == Len(Invoked) = 1 /\ Invoked[1].ev = name

----------------------------------------------------------------------------
(* Properties *)

\* C1: loadGraphModel with a null or undefined locator throws the
\* null-modelUrl error synchronously, whatever the options are, and invokes
\* no backend loader.
C1_NullLocatorThrows ==
  (IsGraphCall /\ IsNullish(Locator)) =>
     /\ last.result = NullModelUrlError
     /\ Invoked = <<>>

C1_Witness ==
  /\ IsGraphCall /\ Locator = NULL /\ HubFlag
  /\ last.result.kind = "thrown" /\ last.events = <<>>

\* C2: loadGraphModel with a non-null locator and fromTFHub truthy invokes the
\* TF-Hub loader and no other one, whatever the suffix of the locator is.
C2_HubFlagWins ==
  (IsGraphCall /\ ~IsNullish(Locator) /\ HubFlag) =>
     /\ OnlyInvoked("loadTfHubModuleJSON")
     /\ Invoked[1].args = <<Locator, GraphRequestInit, GraphOnProgress>>

C2_Witness ==
  /\ IsGraphCall /\ HubFlag
  /\ Locator.t = "string" /\ HasSuffix(Locator.v, DotPb)
  /\ OnlyInvoked("loadTfHubModuleJSON")

\* C3: loadGraphModel with a string S ending in `.pb` and fromTFHub falsy
\* invokes only the binary loader, with S and with the manifest URL
\* dirname(S) + "/" + DEFAULT_MANIFEST_NAME.
C3_PbToBinary ==
  (IsGraphCall /\ Locator.t = "string" /\ HasSuffix(Locator.v, DotPb) /\ ~HubFlag) =>
     /\ OnlyInvoked("loadFrozenModelPB")
     /\ Invoked[1].args[1] = Locator
     /\ Invoked[1].args[2] = ManifestFor(Locator.v)

C3_Witness ==
  /\ IsGraphCall /\ ~HubFlag
  /\ Locator.t = "string" /\ HasSuffix(Locator.v, DotPb)
  /\ HasSlash(DirName(Locator.v))
  /\ OnlyInvoked("loadFrozenModelPB")
  /\ Invoked[1].args[2] = ManifestFor(Locator.v)

\* C4: loadGraphModel with fromTFHub falsy (options omitted or null included)
\* forwards every string not ending in `.pb`, and every load handler, to the
\* JSON loader with the locator unchanged, and invokes no other loader.
C4_DefaultToJson ==
  (/\ IsGraphCall /\ ~HubFlag
   /\ \/ Locator.t = "handler"
      \/ Locator.t = "string" /\ ~HasSuffix(Locator.v, DotPb)) =>
     /\ OnlyInvoked("loadFrozenModelJSON")
     /\ Invoked[1].args[1] = Locator

C4_Witness ==
  /\ IsGraphCall /\ last.args[2].t = "null"
  /\ Locator.t = "handler"
  /\ OnlyInvoked("loadFrozenModelJSON")
  /\ Invoked[1].args[1] = Locator

\* C5: a call that does not fail the null-locator precondition of
\* loadGraphModel invokes exactly one backend loader exactly once, also when
\* that loader's promise rejects; and a call repeating the arguments of the
\* call before it invokes the same loader.
C5_ExactlyOneBackend ==
  /\ (last.entry # "none" /\ ~(IsGraphCall /\ IsNullish(Locator))) =>
        /\ Len(Invoked) = 1
        /\ last.result.kind # "thrown"
  /\ repeat.same => repeat.backends = BackendNames(last.events)

C5_Witness ==
  /\ IsLegacyCall /\ repeat.same
  /\ Locator.t = "string" /\ HasSuffix(Locator.v, DotJson)
  /\ last.settled.kind = "rejected"
  /\ Len(Invoked) = 1

\* C6: loadFrozenModel with a string ending in `.json` invokes the JSON loader
\* with (locator, requestOption, onProgress) and never the binary loader,
\* whether or not a manifest URL was passed.
C6_LegacyJson ==
  (IsLegacyCall /\ Locator.t = "string" /\ HasSuffix(Locator.v, DotJson)) =>
     /\ OnlyInvoked("loadFrozenModelJSON")
     /\ Invoked[1].args = <<Locator, last.args[3], last.args[4]>>

C6_Witness ==
  /\ IsLegacyCall /\ Locator.t = "string" /\ HasSuffix(Locator.v, DotJson)
  /\ last.args[2].t = "string"
  /\ last.args[3] # UNDEFINED
  /\ OnlyInvoked("loadFrozenModelJSON")

\* C7: loadFrozenModel with a non-null locator not ending in `.json` invokes
\* the binary loader; the manifest URL it receives is synthesized from the
\* locator when the caller passed none (undefined or null), and is the
\* caller's own one otherwise.
C7_LegacyBinary ==
  (IsLegacyCall /\ ~IsNullish(Locator) /\ ~(Locator.t = "string" /\ HasSuffix(Locator.v, DotJson))) =>
     /\ OnlyInvoked("loadFrozenModelPB")
     /\ Invoked[1].args[1] = Locator
     /\ Invoked[1].args[2] =
          IF last.args[2].t \in {"undefined", "null"}
          THEN ManifestFor(Locator.v)
          ELSE last.args[2]
     /\ Invoked[1].args[3] = last.args[3]
     /\ Invoked[1].args[4] = last.args[4]

C7_Witness ==
  /\ IsLegacyCall /\ Locator.t = "string" /\ HasSuffix(Locator.v, DotPb)
  /\ last.args[2] = Str(<<"m", Slash, "w">>)
  /\ OnlyInvoked("loadFrozenModelPB")
  /\ Invoked[1].args[2] = last.args[2]

\* C8: what an entry point returns is the promise of the one backend it
\* invoked: it settles exactly as the backend's promise does, fulfilled or
\* rejected.
C8_OutcomePassedThrough ==
  (last.entry # "none" /\ Len(Invoked) >= 1) => last.result = last.settled

C8_Witness ==
  /\ IsGraphCall /\ Len(Invoked) = 1
  /\ last.settled.kind = "rejected"
  /\ last.result = last.settled

\* C9: every loadFrozenModel call emits the deprecation warning once, before
\* its backend is invoked, on every branch; the number of warnings emitted is
\* the number of loadFrozenModel calls made; loadGraphModel emits none.
C9_DeprecationWarn ==
  /\ nWarn = nLegacy
  /\ IsLegacyCall =>
        /\ CountWarn(last.events) = 1
        /\ last.events[1] = deprecationWarn
        /\ Len(Invoked) = 1
  /\ IsGraphCall => CountWarn(last.events) = 0

C9_Witness ==
  /\ nLegacy >= 2 /\ nCalls > nLegacy /\ nWarn = nLegacy
  /\ IsLegacyCall /\ Locator.t = "string" /\ HasSuffix(Locator.v, DotJson)
  /\ last.settled.kind = "rejected"

\* C10: getWeightsManifestUrl of a string is the part of the string before
\* its final `/`, then `/` and DEFAULT_MANIFEST_NAME; without any `/` it is
\* `/` + DEFAULT_MANIFEST_NAME; applying it again gives the same result.
C10_ManifestUrl ==
  /\ synthCalls >= 1 =>
        /\ synthOut = ManifestFor(synthIn)
        /\ ~HasSlash(synthIn) => synthOut = Str(<<Slash>> \o DEFAULT_MANIFEST_NAME)
  /\ synthCalls >= 2 => synthPrev = synthOut

C10_Witness ==
  /\ synthCalls >= 2
  /\ ~HasSlash(synthIn) /\ Len(synthIn) >= 2
  /\ synthOut = Str(<<Slash>> \o DEFAULT_MANIFEST_NAME)

====
